---- MODULE Spec2Model ----
(***************************************************************************)
(* MultiPartStreamer (src/main.py): an incremental multipart/form-data     *)
(* parser fed chunk by chunk through process() and read through values().  *)
(*                                                                         *)
(* A Python str is a sequence of one-character strings, a Python bytes     *)
(* object is a sequence of byte codes (0..255).  str.encode and            *)
(* bytes.decode convert between the two.                                   *)
(***************************************************************************)
EXTENDS Integers, Sequences, FiniteSets, TLC

(***************************************************************************)
(* Bounds of the model.                                                    *)
(***************************************************************************)
\* most chunks the payload of one form is cut into
MaxChunks == 3
\* longest body of one part, in bytes
MaxBody == 2
\* most chunks delivered after the last byte of the form
MaxExtra == 2

(***************************************************************************)
(* Text: characters, byte codes, encode and decode.                        *)
(***************************************************************************)
AsciiTable ==
    << <<"\n", 10>>, <<"\r", 13>>, <<" ", 32>>, <<"!", 33>>, <<"\"", 34>>, <<"-", 45>>,
       <<".", 46>>, <<"/", 47>>, <<":", 58>>, <<";", 59>>, <<"=", 61>>, <<"?", 63>>,
       <<"B", 66>>, <<"C", 67>>, <<"N", 78>>, <<"T", 84>>, <<"a", 97>>, <<"b", 98>>,
       <<"c", 99>>, <<"d", 100>>, <<"e", 101>>, <<"f", 102>>, <<"g", 103>>, <<"h", 104>>,
       <<"i", 105>>, <<"k", 107>>, <<"l", 108>>, <<"m", 109>>, <<"n", 110>>, <<"o", 111>>,
       <<"p", 112>>, <<"r", 114>>, <<"s", 115>>, <<"t", 116>>, <<"u", 117>>, <<"x", 120>>,
       <<"y", 121>> >>

Chars == {AsciiTable[i][1] : i \in DOMAIN AsciiTable}

Codes == {AsciiTable[i][2] : i \in DOMAIN AsciiTable}

Ord == [c \in Chars |-> AsciiTable[CHOOSE i \in DOMAIN AsciiTable : AsciiTable[i][1] = c][2]]

Chr == [b \in Codes |-> AsciiTable[CHOOSE i \in DOMAIN AsciiTable : AsciiTable[i][2] = b][1]]

\* str.encode(s): the bytes of a str
Encode(s) == [i \in 1..Len(s) |-> Ord[s[i]]]

\* bytes.decode(b): the str of the bytes, or UnicodeDecodeError
Decode(b) ==
    IF \A i \in 1..Len(b) : b[i] \in Codes
    THEN [ok |-> TRUE, v |-> [i \in 1..Len(b) |-> Chr[b[i]]]]
    ELSE [ok |-> FALSE, v |-> <<>>]

\* Python's None, where a str is expected
None == <<"None">>

\* f'{x}' of a str or of None
Format(x) == IF x = None THEN <<"N", "o", "n", "e">> ELSE x

(***************************************************************************)
(* Python's sequence primitives, indices counted from 0 as in the source.  *)
(***************************************************************************)
Min(a, b) == IF a < b THEN a ELSE b

Max(a, b) == IF a > b THEN a ELSE b

\* an index of a slice, brought into 0..n
SliceIndex(i, n) == IF i < 0 THEN Max(n + i, 0) ELSE Min(i, n)

\* s[lo:hi]
PySlice(s, lo, hi) ==
    SubSeq(s, SliceIndex(lo, Len(s)) + 1, SliceIndex(hi, Len(s)))

\* s[lo:]
PySliceFrom(s, lo) == PySlice(s, lo, Len(s))

\* s[:hi]
PySliceTo(s, hi) == PySlice(s, 0, hi)

\* does sub occur in s at index i
OccursAt(s, sub, i) ==
    /\ i + Len(sub) <= Len(s)
    /\ \A j \in 1..Len(sub) : s[i + j] = sub[j]

\* the first index >= i at which sub occurs in s, or -1
RECURSIVE FindFrom(_, _, _)
FindFrom(s, sub, i) ==
    IF i + Len(sub) > Len(s) THEN -1
    ELSE IF OccursAt(s, sub, i) THEN i
    ELSE FindFrom(s, sub, i + 1)

\* s.find(sub)
PyFind(s, sub) == FindFrom(s, sub, 0)

\* s.split(sep), sep not empty
RECURSIVE PySplit(_, _)
PySplit(s, sep) ==
    LET i == PyFind(s, sep)
    IN  IF i = -1
        THEN <<s>>
        ELSE <<PySliceTo(s, i)>> \o PySplit(PySliceFrom(s, i + Len(sep)), sep)

\* xs[1:]
PyRest(xs) == SubSeq(xs, 2, Len(xs))

\* x in xs, for a list
PyIn(x, xs) == \E i \in DOMAIN xs : xs[i] = x

(***************************************************************************)
(* Literals of the source.                                                 *)
(***************************************************************************)
CRLF == Encode(<<"\r", "\n">>)

CRLFCRLF == Encode(<<"\r", "\n", "\r", "\n">>)

Dot == <<".">>

Quote == Encode(<<"\"">>)

ContentTypeKey == Encode(<<"C", "o", "n", "t", "e", "n", "t", "-", "T", "y", "p", "e", ":", " ">>)

TextPlain == <<"t", "e", "x", "t", "/", "p", "l", "a", "i", "n">>

ImagePng == <<"i", "m", "a", "g", "e", "/", "p", "n", "g">>

OctetStream == <<"a", "p", "p", "l", "i", "c", "a", "t", "i", "o", "n", "/",
                 "o", "c", "t", "e", "t", "-", "s", "t", "r", "e", "a", "m">>

MultipartFormData == <<"m", "u", "l", "t", "i", "p", "a", "r", "t", "/",
                       "f", "o", "r", "m", "-", "d", "a", "t", "a">>

NameField == <<"n", "a", "m", "e">>

FilenameField == <<"f", "i", "l", "e", "n", "a", "m", "e">>

\* self.default_content_type = b'text/plain': a bytes object
default_content_type == [isstr |-> FALSE, v |-> Encode(TextPlain)]

\* the allowed_file_content_types the streamer is constructed with: a list of str
allowed_file_content_types == <<ImagePng>>

(***************************************************************************)
(* Exceptions.                                                             *)
(***************************************************************************)
NoExc == [type |-> "None", msg |-> ""]

MultiPartStreamerException(m) == [type |-> "MultiPartStreamerException", msg |-> m]

AttributeError == [type |-> "AttributeError", msg |-> ""]

KeyError == [type |-> "KeyError", msg |-> ""]

IndexError == [type |-> "IndexError", msg |-> ""]

UnicodeDecodeError == [type |-> "UnicodeDecodeError", msg |-> ""]

Raise(st, e) == [st |-> st, exc |-> e]

Return(st) == [st |-> st, exc |-> NoExc]

(***************************************************************************)
(* The part sinks: MyBuffer and MyFile objects.  closed, late and stale    *)
(* are history fields: close() was called; write() was called after        *)
(* close(); write() was called after a later sink was created.             *)
(***************************************************************************)
\* hashlib.md5(...).hexdigest(): a str that names the hashed bytes
Md5Hex(data) == <<"md5">> \o [i \in 1..Len(data) |-> ToString(data[i])]

MyBufferInit(part_name) ==
    [kind |-> "MyBuffer", part_name |-> part_name, buffer |-> <<>>,
     part_filename_ext |-> None, filename |-> None,
     closed |-> FALSE, late |-> FALSE, stale |-> FALSE]

\* MyFile._create_file, called while the attributes in attrs are assigned
create_file(attrs) ==
    IF "part_filename_ext" \in attrs THEN NoExc ELSE AttributeError

\* MyFile.__init__: _create_file runs before any attribute is assigned
MyFileInit(part_name, part_filename, part_filename_ext) ==
    [exc |-> create_file({}),
     sink |-> [kind |-> "MyFile", part_name |-> part_name, buffer |-> <<>>,
               part_filename_ext |-> part_filename_ext, filename |-> None,
               closed |-> FALSE, late |-> FALSE, stale |-> FALSE]]

\* MyBuffer.write / MyFile.write
SinkWrite(sk, chunk) ==
    IF sk.kind = "MyFile" /\ sk.closed
    THEN [sink |-> sk, exc |-> AttributeError]
    ELSE [sink |-> [sk EXCEPT !.buffer = @ \o chunk, !.late = @ \/ sk.closed],
          exc |-> NoExc]

\* MyBuffer.close / MyFile.close
SinkClose(sk) ==
    IF sk.kind = "MyFile"
    THEN IF sk.closed
         THEN [sink |-> sk, exc |-> AttributeError]
         ELSE [sink |-> [sk EXCEPT !.closed = TRUE,
                                   !.filename = Md5Hex(sk.buffer) \o Dot \o sk.part_filename_ext],
               exc |-> NoExc]
    ELSE [sink |-> [sk EXCEPT !.closed = TRUE], exc |-> NoExc]

\* MyBuffer.value / MyFile.value
SinkValue(sk) ==
    IF sk.kind = "MyFile"
    THEN [ok |-> TRUE, v |-> sk.filename]
    ELSE Decode(sk.buffer)

(***************************************************************************)
(* The header parser.                                                      *)
(***************************************************************************)
head_parser(head) ==
    LET splitted == PySplit(head, CRLF)
    IN  <<splitted[1], IF Len(splitted) > 1 THEN splitted[2] ELSE <<>>>>

content_type_parser(content_type) ==
    LET start == PyFind(content_type, ContentTypeKey)
    IN  Decode(IF start # -1
               THEN PySliceFrom(content_type, Len(ContentTypeKey))
               ELSE <<>>)

content_disposition_parser(content_disposition, field) ==
    LET key   == Encode(field \o <<"=", "\"">>)
        start == PyFind(content_disposition, key)
        tail  == PySliceFrom(content_disposition, start + Len(key))
        end   == PyFind(tail, Quote)
    IN  Decode(IF start # -1 THEN PySliceTo(tail, end) ELSE <<>>)

(***************************************************************************)
(* The streamer.  st is the MultiPartStreamer object: boundary,            *)
(* prev_chunk, parts, current_part_name, mode, allowed_file_extensions,    *)
(* and sinks, the sink objects created so far (parts maps a part name to   *)
(* the index of its sink in sinks).  An operation returns the object       *)
(* after the call and the exception the call raised.                       *)
(***************************************************************************)
\* one statement after another: r is what the first returned; an exception
\* propagates, otherwise K goes on from the object the first left
Then(r, K(_)) == IF r.exc # NoExc THEN r ELSE K(r.st)

HasPart(st, name) == name \in DOMAIN st.parts

\* StorePart with the bug of keeping the sink a name already has in parts
StorePartKeepsFirst(st, name, sink) ==
    [st EXCEPT !.sinks = Append(@, sink),
               !.parts = [k \in DOMAIN @ \cup {name} |->
                             IF k \in DOMAIN @ THEN @[k] ELSE Len(st.sinks) + 1]]

\* self.parts[name] = sink
StorePart(st, name, sink) ==
    [st EXCEPT !.sinks = Append(@, sink),
               !.parts = [k \in DOMAIN @ \cup {name} |->
                             IF k = name THEN Len(st.sinks) + 1 ELSE @[k]]]

\* the sink object at index i after a call on it that returned w
PutSink(st, i, w) == [st |-> [st EXCEPT !.sinks[i] = w.sink], exc |-> w.exc]

\* write(chunk) on the sink object at index i
WriteTo(st, i, chunk) ==
    PutSink(st, i, SinkWrite([st.sinks[i] EXCEPT !.stale = @ \/ i < Len(st.sinks)], chunk))

\* self.parts[name].write(chunk)
PartWrite(st, name, chunk) ==
    IF ~HasPart(st, name)
    THEN Raise(st, KeyError)
    ELSE WriteTo(st, st.parts[name], chunk)

\* self.parts[name].close()
PartClose(st, name) ==
    IF ~HasPart(st, name)
    THEN Raise(st, KeyError)
    ELSE PutSink(st, st.parts[name], SinkClose(st.sinks[st.parts[name]]))

\* x == y for two values that are each a str or a bytes object
PyEq(x, y) == x.isstr = y.isstr /\ x.v = y.v

\* line 134: the str the parser returned, or the default, a bytes object
PartType(v) == IF v # <<>> THEN [isstr |-> TRUE, v |-> v] ELSE default_content_type

\* line 157: self.parts[part_name] = self.MyFile(...), f what MyFile(...) gave
StoreFile(st, part_name, f) ==
    IF f.exc # NoExc THEN Raise(st, f.exc)
    ELSE Return(StorePart(st, part_name, f.sink))

\* lines 152-157: the extension check, then the MyFile sink
CreateFile(st, part_name, part_filename, part_filename_ext) ==
    IF /\ st.allowed_file_extensions # <<>>
       /\ ~PyIn(part_filename_ext, st.allowed_file_extensions)
    THEN Raise(st, MultiPartStreamerException("Allowed file extension"))
    ELSE StoreFile(st, part_name, MyFileInit(part_name, part_filename, part_filename_ext))

\* lines 142-150: fn is what the parser returned for the filename key
CreateFilePart(st, part_name, fn) ==
    IF ~fn.ok THEN Raise(st, UnicodeDecodeError)
    ELSE IF fn.v = <<>>
    THEN Raise(st, MultiPartStreamerException("Form filename required"))
    ELSE IF ~PyIn(".", fn.v)
    THEN Raise(st, MultiPartStreamerException("File extension required but not present"))
    ELSE CreateFile(st, part_name, fn.v, PySplit(fn.v, Dot)[Len(PySplit(fn.v, Dot))])

\* CreatePart with the bug of taking every other content type for text
CreatePartAnyTypeIsText(st, part_name, part_type, content_disposition) ==
    IF \E i \in DOMAIN allowed_file_content_types :
           PyEq(part_type, [isstr |-> TRUE, v |-> allowed_file_content_types[i]])
    THEN CreateFilePart(st, part_name,
                        content_disposition_parser(content_disposition, FilenameField))
    ELSE Return(StorePart(st, part_name, MyBufferInit(part_name)))

\* lines 141-162 of _process_chunk_from_start: classify the part, create its sink
CreatePart(st, part_name, part_type, content_disposition) ==
    IF \E i \in DOMAIN allowed_file_content_types :
           PyEq(part_type, [isstr |-> TRUE, v |-> allowed_file_content_types[i]])
    THEN CreateFilePart(st, part_name,
                        content_disposition_parser(content_disposition, FilenameField))
    ELSE IF PyEq(part_type, default_content_type)
    THEN Return(StorePart(st, part_name, MyBufferInit(part_name)))
    ELSE Raise(st, MultiPartStreamerException("Allowed file content-type"))

\* WriteTail with the bug of keeping the CRLF that ends a body before the next part
WriteTailKeepsCRLF(st, part_name, tail, isLast, boundary_last) ==
    IF PySliceFrom(tail, -Len(boundary_last)) = boundary_last
    THEN Then(PartWrite(st, part_name, PySliceTo(tail, -Len(boundary_last))),
              LAMBDA t : Then(PartClose(t, part_name),
                              LAMBDA u : Return([u EXCEPT !.prev_chunk = <<>>])))
    ELSE IF ~isLast
    THEN PartWrite(st, part_name, tail)
    ELSE Return([st EXCEPT !.prev_chunk = tail, !.mode = 1])

\* lines 164-178 of _process_chunk_from_start: the body bytes of the segment
WriteTail(st, part_name, tail, isLast, boundary_last) ==
    IF PySliceFrom(tail, -Len(boundary_last)) = boundary_last
    THEN Then(PartWrite(st, part_name, PySliceTo(tail, -Len(boundary_last))),
              LAMBDA t : Then(PartClose(t, part_name),
                              LAMBDA u : Return([u EXCEPT !.prev_chunk = <<>>])))
    ELSE IF ~isLast
    THEN PartWrite(st, part_name, PySliceTo(tail, -Len(CRLF)))
    ELSE Return([st EXCEPT !.prev_chunk = tail, !.mode = 1])

\* lines 136-178: pn and pt are what the parsers returned for the name key
\* and for the Content-Type line
SegmentPart(st, content_disposition, pn, pt, tail, isLast, boundary_last) ==
    IF ~pn.ok \/ ~pt.ok THEN Raise(st, UnicodeDecodeError)
    ELSE IF pn.v = <<>>
    THEN Raise(st, MultiPartStreamerException("Form field name required"))
    ELSE Then(CreatePart([st EXCEPT !.current_part_name = pn.v], pn.v,
                         PartType(pt.v), content_disposition),
              LAMBDA t : WriteTail(t, pn.v, tail, isLast, boundary_last))

\* lines 132-134: hp is what _head_parser returned
SegmentHead(st, hp, tail, isLast, boundary_last) ==
    SegmentPart(st, hp[1], content_disposition_parser(hp[1], NameField),
                content_type_parser(hp[2]), tail, isLast, boundary_last)

\* lines 129-132: index is what s.find(b'\r\n\r\n') returned
SegmentAt(st, s, index, isLast, boundary_last) ==
    SegmentHead(st, head_parser(PySliceTo(s, index)), PySliceFrom(s, index + 4),
                isLast, boundary_last)

\* one turn of the loop of _process_chunk_from_start, lines 128-178
ProcessSegment(st, s, isLast, boundary_last) ==
    SegmentAt(st, s, PyFind(s, CRLFCRLF), isLast, boundary_last)

\* the loop of _process_chunk_from_start over splitted[idx..]
RECURSIVE SegmentLoop(_, _, _, _)
SegmentLoop(st, splitted, idx, boundary_last) ==
    IF idx > Len(splitted)
    THEN Return(st)
    ELSE Then(ProcessSegment(st, splitted[idx], idx = Len(splitted), boundary_last),
              LAMBDA t : SegmentLoop(t, splitted, idx + 1, boundary_last))

\* str.encode(f'--{self.boundary}\r\n')
OpeningBoundary(st) == Encode(<<"-", "-">> \o Format(st.boundary) \o <<"\r", "\n">>)

\* str.encode(f'\r\n--{self.boundary}\r\n')
MidBoundary(st) == Encode(<<"\r", "\n", "-", "-">> \o Format(st.boundary) \o <<"\r", "\n">>)

\* str.encode(f'\r\n--{self.boundary}--\r\n')
LastBoundary(st) ==
    Encode(<<"\r", "\n", "-", "-">> \o Format(st.boundary) \o <<"-", "-", "\r", "\n">>)

process_chunk_from_start(st, next_chunk) ==
    SegmentLoop(st, PyRest(PySplit(st.prev_chunk \o next_chunk, OpeningBoundary(st))),
                1, LastBoundary(st))

\* lines 190-223: the three cases of _process_chunk_from_prev
ResumeBody(st, next_chunk, double_chunk, boundary_index, boundary_last) ==
    IF boundary_index # -1
    THEN Then(PartWrite(st, st.current_part_name, PySliceTo(double_chunk, boundary_index)),
              LAMBDA t : Then(PartClose(t, st.current_part_name),
                              LAMBDA u : Return([u EXCEPT
                                 !.prev_chunk = PySliceFrom(double_chunk, boundary_index + Len(CRLF)),
                                 !.mode = 0])))
    ELSE IF PySliceFrom(double_chunk, -Len(boundary_last)) = boundary_last
    THEN Then(PartWrite(st, st.current_part_name,
                        PySliceTo(double_chunk, -Len(boundary_last))),
              LAMBDA t : Then(PartClose(t, st.current_part_name),
                              LAMBDA u : Return([u EXCEPT !.prev_chunk = <<>>])))
    ELSE Then(PartWrite(st, st.current_part_name, st.prev_chunk),
              LAMBDA t : Return([t EXCEPT !.prev_chunk = next_chunk]))

process_chunk_from_prev(st, next_chunk) ==
    ResumeBody(st, next_chunk, st.prev_chunk \o next_chunk,
               PyFind(st.prev_chunk \o next_chunk, MidBoundary(st)), LastBoundary(st))

\* lines 227-231: the body of the try of process
Dispatch(st, next_chunk) ==
    IF st.mode = 0 THEN process_chunk_from_start(st, next_chunk)
    ELSE IF st.mode = 1 THEN process_chunk_from_prev(st, next_chunk)
    ELSE Return(st)

\* lines 237-240: c is what the close() of the handler returned
CloseOnError(c) ==
    IF c.exc # NoExc
    THEN Raise(c.st, MultiPartStreamerException("Can't close on process exception occur"))
    ELSE Return(c.st)

\* lines 233-240: the except clauses of process, r what the try body returned
ExceptClauses(r) ==
    IF r.exc = NoExc \/ r.exc.type = "MultiPartStreamerException"
    THEN r
    ELSE CloseOnError(PartClose(r.st, r.st.current_part_name))

process(st, next_chunk) == ExceptClauses(Dispatch(st, next_chunk))

\* line 249: the dict of the values of the sinks
ValuesDict(st) ==
    IF \E k \in DOMAIN st.parts : ~SinkValue(st.sinks[st.parts[k]]).ok
    THEN [st |-> st, exc |-> UnicodeDecodeError, dict |-> <<>>]
    ELSE [st |-> st, exc |-> NoExc,
          dict |-> [k \in DOMAIN st.parts |-> SinkValue(st.sinks[st.parts[k]]).v]]

\* lines 247-249: r is what the flush of lines 245-246 returned
ValuesAfterFlush(r) ==
    IF r.exc # NoExc
    THEN [st |-> r.st, exc |-> r.exc, dict |-> <<>>]
    ELSE ValuesDict([r.st EXCEPT !.prev_chunk = <<>>])

\* values(): the object after the call, the exception raised, the dict returned
values(st) ==
    ValuesAfterFlush(IF st.prev_chunk # <<>>
                     THEN process_chunk_from_start(st, st.prev_chunk)
                     ELSE Return(st))

\* lines 255-261: v1 and kv are content_type.split(' ')[0] and v2.split('=')
ApplyBoundary(st, v1, kv) ==
    IF Len(kv) < 2
    THEN Raise(st, IndexError)
    ELSE IF PySplit(v1, <<";">>)[1] # <<>> /\ PySplit(v1, <<";">>)[1] = MultipartFormData
    THEN Return([st EXCEPT !.boundary = kv[2]])
    ELSE Raise(st, MultiPartStreamerException("Allow multipart/form-data only"))

\* lines 253-264: splitted is content_type.split(' ')
ApplySplitted(st, splitted) ==
    IF Len(splitted) # 2
    THEN Raise(st, MultiPartStreamerException("Allow multipart/form-data only"))
    ELSE ApplyBoundary(st, splitted[1], PySplit(splitted[2], <<"=">>))

apply_content_type(st, content_type) ==
    IF content_type = None
    THEN Raise(st, MultiPartStreamerException("Allow multipart/form-data only"))
    ELSE ApplySplitted(st, PySplit(content_type, <<" ">>))

\* the object __init__ leaves, for the given allowed_file_extensions
NewStreamer(exts) ==
    [boundary |-> None, prev_chunk |-> <<>>, parts |-> <<>>, sinks |-> <<>>,
     current_part_name |-> None, mode |-> 0, allowed_file_extensions |-> exts]

(***************************************************************************)
(* The forms the caller sends.  A part is described by its name, its       *)
(* filename, its Content-Type (None when the head has no such key or       *)
(* line) and its body.                                                     *)
(***************************************************************************)
TheBoundary == <<"B">>

KeyValue(field, value) == field \o <<"=", "\"">> \o value \o <<"\"">>

\* the Content-Disposition line of a part: its keys, or the bare disposition
\* type when it has none
DispositionLine(p) ==
    IF p.name = None /\ p.filename = None
    THEN <<"f", "o", "r", "m", "-", "d", "a", "t", "a">>
    ELSE (IF p.name # None THEN KeyValue(NameField, p.name) ELSE <<>>)
         \o (IF p.name # None /\ p.filename # None THEN <<";", " ">> ELSE <<>>)
         \o (IF p.filename # None THEN KeyValue(FilenameField, p.filename) ELSE <<>>)

PartHead(p) ==
    Encode(DispositionLine(p))
    \o (IF p.ctype # None THEN CRLF \o ContentTypeKey \o Encode(p.ctype) ELSE <<>>)

OpeningMarker == Encode(<<"-", "-">> \o TheBoundary \o <<"\r", "\n">>)

ClosingMarker == Encode(<<"-", "-">> \o TheBoundary \o <<"-", "-", "\r", "\n">>)

\* the bytes of parts i.. of the form, up to the end of the payload
RECURSIVE PayloadFrom(_, _)
PayloadFrom(form, i) ==
    IF i > Len(form)
    THEN ClosingMarker
    ELSE OpeningMarker \o PartHead(form[i]) \o CRLFCRLF \o form[i].body \o CRLF
         \o PayloadFrom(form, i + 1)

Payload(form) == PayloadFrom(form, 1)

\* the body of the part at position i of a form: the start of a text of its own
BodyText(i) == IF i = 1 THEN Encode(<<"h", "i", "!", "h">>) ELSE Encode(<<"o", "k", "?", "o">>)

Field(name, i, n) ==
    [name |-> name, filename |-> None, ctype |-> None, body |-> SubSeq(BodyText(i), 1, n)]

Upload(name, filename, ctype) ==
    [name |-> name, filename |-> filename, ctype |-> ctype,
     body |-> SubSeq(BodyText(1), 1, MaxBody)]

\* forms of text fields only
FieldForms ==
    {<<Field(<<"a">>, 1, n)>> : n \in 0..MaxBody}
    \cup {<<Field(<<"a">>, 1, n), Field(m, 2, MaxBody - n)>> :
             n \in 0..MaxBody, m \in {<<"a">>, <<"b">>}}

\* forms with an upload or an unusual head
OtherForms ==
    { <<Upload(<<"f">>, <<"x", ".", "p", "n", "g">>, ImagePng)>>,
      <<Upload(<<"f">>, <<"x", ".", "t", "x", "t">>, ImagePng)>>,
      <<Upload(<<"f">>, <<"x">>, ImagePng)>>,
      <<Upload(<<"f">>, None, ImagePng)>>,
      <<Upload(None, <<"x", ".", "p", "n", "g">>, None)>>,
      <<Upload(None, None, None)>>,
      <<Upload(<<"a">>, None, TextPlain)>>,
      <<Upload(<<"a">>, None, OctetStream)>>,
      <<Field(<<"f">>, 2, MaxBody), Upload(<<"f">>, <<"x", ".", "p", "n", "g">>, ImagePng)>>,
      <<Field(<<"a">>, 2, MaxBody), Upload(<<"b">>, None, OctetStream)>> }

\* what one request is: the form sent and the configuration of its streamer
Cases ==
    {[form |-> f, exts |-> <<>>] : f \in FieldForms \cup OtherForms}
    \cup {[form |-> f, exts |-> << <<"p", "n", "g">> >>] :
             f \in {g \in OtherForms : Len(g) = 1 /\ g[1].filename # None /\ g[1].name # None}}

\* the offset in the payload at which part i of the form begins
PartStart(f, i) == Len(Payload(f)) - Len(PayloadFrom(f, i))

\* where offset p of the payload of form f lies: strictly inside the first
\* opening marker, a head block, a marker between two parts or the closing
\* marker; in or at the edge of a body; or at none of these
EdgeKind(f, p) ==
    LET hs(i) == PartStart(f, i) + Len(OpeningMarker)
        he(i) == hs(i) + Len(PartHead(f[i]))
        bs(i) == he(i) + Len(CRLFCRLF)
    IN  IF p < Len(OpeningMarker) THEN "opening"
        ELSE IF p > Len(Payload(f)) - Len(CRLF) - Len(ClosingMarker) THEN "closing"
        ELSE IF \E i \in DOMAIN f : hs(i) < p /\ p < he(i) THEN "head"
        ELSE IF \E i \in DOMAIN f : bs(i) <= p /\ p <= bs(i) + Len(f[i].body) THEN "body"
        ELSE IF \E i \in DOMAIN f :
                   i > 1 /\ PartStart(f, i) - Len(CRLF) < p /\ p < hs(i) THEN "mid"
        ELSE "seam"

\* the Content-Type header values apply_content_type is called with
Headers ==
    { MultipartFormData \o <<";", " ">> \o <<"b", "o", "u", "n", "d", "a", "r", "y", "=">> \o TheBoundary,
      TextPlain \o <<";", " ">> \o <<"b", "o", "u", "n", "d", "a", "r", "y", "=">> \o TheBoundary,
      MultipartFormData \o <<";">> \o <<"b", "o", "u", "n", "d", "a", "r", "y", "=">> \o TheBoundary,
      MultipartFormData \o <<";", " ">> \o <<"b", "o", "u", "n", "d", "a", "r", "y">>,
      None }

\* the chunks a caller delivers after the end of the form
ExtraChunks == {Encode(<<"x">>)}

\* the chunks a caller of form f delivers before it has read the Content-Type
\* header: the payload, and the start of a part behind the marker that the
\* boundary of a new streamer gives
EarlyChunks(f) ==
    {Payload(f), OpeningBoundary(NewStreamer(<<>>)) \o PartHead(f[1]) \o CRLFCRLF}

(***************************************************************************)
(* The state: the streamer object s, and the caller's position in the      *)
(* request.  form, payload and layout record the request (layout[p] is     *)
(* where offset p lies), nchunks and edges the chunks delivered so far and *)
(* where their edges fell; raised is the exception the last call raised,   *)
(* result the dict values() returned.                                      *)
(***************************************************************************)
VARIABLES s, form, payload, layout, pos, nchunks, edges, nextra, pc, raised, result

vars == <<s, form, payload, layout, pos, nchunks, edges, nextra, pc, raised, result>>

Init ==
    \E c \in Cases :
        /\ s = NewStreamer(c.exts)
        /\ form = c.form
        /\ payload = Payload(c.form)
        /\ layout = [p \in 1..(Len(Payload(c.form)) - 1) |-> EdgeKind(c.form, p)]
        /\ pos = 0
        /\ nchunks = 0
        /\ edges = {}
        /\ nextra = 0
        /\ pc = "new"
        /\ raised = NoExc
        /\ result = <<>>

\* the caller's position after a call that returned r
After(r, next) == IF r.exc = NoExc THEN next ELSE "failed"

\* the request handler reads the Content-Type header
ApplyContentType ==
    /\ pc = "new"
    /\ \E h \in Headers :
          \E r \in {apply_content_type(s, h)} :
              /\ s' = r.st
              /\ raised' = r.exc
              /\ pc' = After(r, "feeding")
    /\ UNCHANGED <<form, payload, layout, pos, nchunks, edges, nextra, result>>

\* a chunk arrives before the Content-Type header was read: process(chunk)
ProcessEarly ==
    /\ pc = "new"
    /\ \E chunk \in EarlyChunks(form) :
          \E r \in {process(s, chunk)} :
              /\ s' = r.st
              /\ raised' = r.exc
              /\ pc' = After(r, "early")
    /\ nchunks' = nchunks + 1
    /\ UNCHANGED <<form, payload, layout, pos, edges, nextra, result>>

\* the next n bytes of the payload arrive: process(chunk)
Process ==
    /\ pc = "feeding"
    /\ pos < Len(payload)
    /\ \E n \in 1..(Len(payload) - pos) :
          /\ nchunks + 1 = MaxChunks => pos + n = Len(payload)
          /\ \E r \in {process(s, SubSeq(payload, pos + 1, pos + n))} :
                 /\ s' = r.st
                 /\ raised' = r.exc
                 /\ pc' = After(r, "feeding")
          /\ pos' = pos + n
          /\ edges' = IF pos + n < Len(payload) THEN edges \cup {layout[pos + n]} ELSE edges
    /\ nchunks' = nchunks + 1
    /\ UNCHANGED <<form, payload, layout, nextra, result>>

\* bytes arrive after the end of the form: process(chunk)
ProcessExtra ==
    /\ pc = "feeding"
    /\ pos = Len(payload)
    /\ nextra < MaxExtra
    /\ \E chunk \in ExtraChunks :
          \E r \in {process(s, chunk)} :
              /\ s' = r.st
              /\ raised' = r.exc
              /\ pc' = After(r, "feeding")
    /\ nextra' = nextra + 1
    /\ UNCHANGED <<form, payload, layout, pos, nchunks, edges, result>>

\* the request handler asks for the fields: values()
Values ==
    /\ pc = "feeding"
    /\ pos = Len(payload)
    /\ \E r \in {values(s)} :
           /\ s' = r.st
           /\ raised' = r.exc
           /\ result' = r.dict
           /\ pc' = After(r, "done")
    /\ UNCHANGED <<form, payload, layout, pos, nchunks, edges, nextra>>

Next == ApplyContentType \/ ProcessEarly \/ Process \/ ProcessExtra \/ Values

Spec == Init /\ [][Next]_vars
(***************************************************************************)
(* Vocabulary of the properties.                                           *)
(***************************************************************************)
\* a text field: a name, no filename, no Content-Type line
IsField(p) == p.name # None /\ p.filename = None /\ p.ctype = None

\* a file upload with a name, a filename with an extension, an allowed type
IsUpload(p) ==
    /\ p.name # None
    /\ p.filename # None
    /\ PyIn(".", p.filename)
    /\ p.ctype # None
    /\ PyIn(p.ctype, allowed_file_content_types)

FieldsOnly(f) == \A i \in DOMAIN f : IsField(f[i])

\* the extension of the filename of an upload
ExtensionOf(p) == PySplit(p.filename, Dot)[Len(PySplit(p.filename, Dot))]

\* no part after part i of the form has the name of part i
LastOfItsName(f, i) == \A j \in DOMAIN f : j > i => f[j].name # f[i].name

IsPrefix(a, b) == Len(a) <= Len(b) /\ SubSeq(b, 1, Len(a)) = a

\* the header value of a multipart/form-data request with the boundary of the forms
ValidHeader ==
    MultipartFormData \o <<";", " ">>
    \o <<"b", "o", "u", "n", "d", "a", "r", "y", "=">> \o TheBoundary

\* what the caller gets when the whole payload of form f is delivered in one
\* process() call and values() is called next
AnswerOf(v) == [exc |-> v.exc, dict |-> v.dict]

WholeOutcome(f, exts) ==
    AnswerOf(ValuesAfterFlush(
        Then(process(apply_content_type(NewStreamer(exts), ValidHeader).st, Payload(f)),
             LAMBDA t : IF t.prev_chunk # <<>>
                        THEN process_chunk_from_start(t, t.prev_chunk)
                        ELSE Return(t))))

\* what the caller got in this run
Outcome == [exc |-> raised, dict |-> result]

\* the caller has its answer: the dict of values(), or an exception of
\* process() or values()
Finished == pc \in {"done", "failed"} /\ s.boundary # None

\* the whole form, and nothing else, was delivered in one process() call
OneChunk == nchunks = 1 /\ pos = Len(payload) /\ nextra = 0

(***************************************************************************)
(* C1.  Chunk-boundary independence: a well-formed payload delivered in    *)
(* any chunks gives the caller what delivering it in one chunk gives.      *)
(* Stated for forms of text fields.                                        *)
(***************************************************************************)
ChunkBoundaryIndependence ==
    (FieldsOnly(form) /\ Finished /\ nextra = 0)
        => Outcome = WholeOutcome(form, s.allowed_file_extensions)

(***************************************************************************)
(* C2.  Byte conservation: for any chunking of a well-formed payload, the  *)
(* sinks created are one per part, in the order of the parts; a sink never *)
(* holds anything but the first bytes of the body of its part, and holds   *)
(* the whole body once values() has returned.                              *)
(***************************************************************************)
ByteConservation ==
    (FieldsOnly(form) /\ nextra = 0)
        => /\ Len(s.sinks) <= Len(form)
           /\ \A i \in DOMAIN s.sinks :
                 /\ i <= Len(form)
                 /\ s.sinks[i].part_name = form[i].name
                 /\ IsPrefix(s.sinks[i].buffer, form[i].body)
           /\ pc = "done" =>
                 /\ Len(s.sinks) = Len(form)
                 /\ \A i \in DOMAIN s.sinks : s.sinks[i].buffer = form[i].body

(***************************************************************************)
(* C3.  Boundary split at the marker: a well-formed payload delivered as   *)
(* two chunks, the split strictly inside the first opening marker, a       *)
(* marker between two parts or the closing marker, gives the caller what   *)
(* one-chunk delivery gives.                                               *)
(***************************************************************************)
SplitInsideMarker ==
    (/\ FieldsOnly(form)
     /\ Finished
     /\ nextra = 0
     /\ nchunks = 2
     /\ edges # {}
     /\ edges \subseteq {"opening", "mid", "closing"})
        => Outcome = WholeOutcome(form, s.allowed_file_extensions)

(***************************************************************************)
(* C4.  Header block split across chunks: when a chunk edge falls strictly *)
(* inside the head block of a part, no call raises, and once values() has  *)
(* returned every part has a sink under its name that holds exactly its    *)
(* body.                                                                   *)
(***************************************************************************)
HeadSplitAcrossChunks ==
    (FieldsOnly(form) /\ "head" \in edges /\ nextra = 0)
        => /\ raised = NoExc
           /\ pc = "done" =>
                 \A i \in DOMAIN form :
                    \E j \in DOMAIN s.sinks :
                       /\ s.sinks[j].part_name = form[i].name
                       /\ s.sinks[j].buffer = form[i].body

(***************************************************************************)
(* C5.  At most one open sink: in every state at most one sink of parts    *)
(* is created and not yet closed, and it is the one current_part_name      *)
(* names.  Stated for the runs whose chunk edges all fall in part bodies.  *)
(***************************************************************************)
OpenParts == {k \in DOMAIN s.parts : ~s.sinks[s.parts[k]].closed}

AtMostOneOpenSink ==
    (FieldsOnly(form) /\ edges \subseteq {"body"})
        => /\ Cardinality(OpenParts) <= 1
           /\ \A k \in OpenParts : k = s.current_part_name

(***************************************************************************)
(* C6.  No write after close: no call, a process() call after the closing  *)
(* boundary included, changes the content of a sink that has been closed.  *)
(* Stated for the runs whose chunk edges all fall in part bodies.          *)
(***************************************************************************)
NoWriteAfterClose ==
    [][(FieldsOnly(form) /\ edges \subseteq {"body"})
          => \A i \in DOMAIN s.sinks :
                s.sinks[i].closed => s'.sinks[i].buffer = s.sinks[i].buffer]_vars

(***************************************************************************)
(* C7.  Text field decoding: a form whose heads have no Content-Type line  *)
(* gets Buffer Sinks only; a well-formed form of text fields delivered in  *)
(* one chunk raises nothing, and values() maps the name of every part to   *)
(* the text of the body of the part (of the last part of that name).       *)
(***************************************************************************)
TextFieldDecoding ==
    /\ (\A i \in DOMAIN form : form[i].ctype = None)
          => \A j \in DOMAIN s.sinks : s.sinks[j].kind = "MyBuffer"
    /\ (FieldsOnly(form) /\ OneChunk)
          => /\ raised = NoExc
             /\ Len(s.sinks) = Len(form)
             /\ pc = "done" =>
                   /\ DOMAIN result = {form[i].name : i \in DOMAIN form}
                   /\ \A i \in DOMAIN form :
                         LastOfItsName(form, i)
                            => result[form[i].name] = Decode(form[i].body).v

\* a form of two text fields with bodies was delivered in one chunk and read
TextFieldDecodingWitness ==
    /\ FieldsOnly(form)
    /\ OneChunk
    /\ pc = "done"
    /\ Len(form) = 2
    /\ form[1].name # form[2].name
    /\ form[1].body # <<>>
    /\ form[2].body # <<>>
    /\ result[form[1].name] = Decode(form[1].body).v

(***************************************************************************)
(* C8.  File round-trip: a form of one file part of an allowed content     *)
(* type (and extension) delivered in one chunk makes process() succeed,    *)
(* and values() maps its name to hash(P).extension, the stored file        *)
(* holding P.                                                              *)
(***************************************************************************)
FileRoundTrip ==
    (/\ Len(form) = 1
     /\ IsUpload(form[1])
     /\ \/ s.allowed_file_extensions = <<>>
        \/ PyIn(ExtensionOf(form[1]), s.allowed_file_extensions)
     /\ OneChunk)
        => /\ raised = NoExc
           /\ pc = "done" =>
                 /\ form[1].name \in DOMAIN result
                 /\ result[form[1].name]
                       = Md5Hex(form[1].body) \o Dot \o ExtensionOf(form[1])
                 /\ s.sinks[s.parts[form[1].name]].buffer = form[1].body

(***************************************************************************)
(* C9.  Missing name rejection: when a part whose Content-Disposition line *)
(* has no name="..." key, a line with only a filename="..." key included,  *)
(* is delivered in one chunk, process() raises the validation error and no *)
(* sink is created.                                                        *)
(***************************************************************************)
MissingNameRejected ==
    ((\A i \in DOMAIN form : form[i].name = None) /\ OneChunk)
        => /\ raised.type = "MultiPartStreamerException"
           /\ s.sinks = <<>>

(***************************************************************************)
(* C10.  Extension allow-list: with a non-empty allowed_file_extensions, a *)
(* file part delivered in one chunk makes process() raise the validation   *)
(* error when its extension is not in the list, and is accepted when it    *)
(* is: no call raises and values() has the part.                           *)
(***************************************************************************)
ExtensionAllowList ==
    (/\ Len(form) = 1
     /\ IsUpload(form[1])
     /\ s.allowed_file_extensions # <<>>
     /\ OneChunk)
        => IF PyIn(ExtensionOf(form[1]), s.allowed_file_extensions)
           THEN /\ raised = NoExc
                /\ pc = "done" => form[1].name \in DOMAIN result
           ELSE raised.type = "MultiPartStreamerException"

(***************************************************************************)
(* C11.  Disallowed content type: when a part whose Content-Type is        *)
(* neither an allowed file content type nor the default text type is       *)
(* delivered in one chunk, first in the chunk or after a text field,       *)
(* process() raises the validation error of the content type, the caller   *)
(* gets that very exception, and no sink is created for the part.          *)
(***************************************************************************)
\* part i of the form has a Content-Type line of a type that is not allowed
\* and the parts before it are text fields
HasDisallowedType(f, i) ==
    /\ f[i].name # None
    /\ f[i].ctype # None
    /\ f[i].ctype # TextPlain
    /\ ~PyIn(f[i].ctype, allowed_file_content_types)
    /\ \A j \in 1..(i - 1) : IsField(f[j])

ExplicitDefaultType ==
    (/\ Len(form) = 1
     /\ form[1].name # None
     /\ form[1].ctype = TextPlain
     /\ ~PyIn(TextPlain, allowed_file_content_types)
     /\ OneChunk)
        => /\ raised = NoExc
           /\ form[1].name \in DOMAIN s.parts
           /\ \A j \in DOMAIN s.sinks : s.sinks[j].kind = "MyBuffer"

(***************************************************************************)
(* C13.  apply_content_type outcome: a call of apply_content_type either   *)
(* sets boundary, to the value of the boundary= part of a header of media  *)
(* type multipart/form-data, or raises the validation error and no other   *)
(* kind of error, leaving boundary as it was.                              *)
(***************************************************************************)
\* apply_content_type was the only call made, and it raised
ApplyFailed == pc = "failed" /\ nchunks = 0

ApplyContentTypeOutcome ==
    /\ ApplyFailed => /\ raised.type = "MultiPartStreamerException"
                      /\ s.boundary = None
    /\ s.boundary # None => s.boundary = TheBoundary

(***************************************************************************)
(* C14.  Boundary required: a process() call made while boundary is not    *)
(* set raises an error, and leaves parts, prev_chunk and mode as they      *)
(* were.                                                                   *)
(***************************************************************************)
BoundaryRequired ==
    /\ pc # "early"
    /\ s.boundary = None => /\ s.parts = <<>>
                            /\ s.prev_chunk = <<>>
                            /\ s.mode = 0

(***************************************************************************)
(* C15.  Last occurrence wins: when a form of two text fields of the same  *)
(* name has been delivered, in any chunks, and values() has returned, the  *)
(* dict has that one name and maps it to the body text of the second part, *)
(* with no byte of the first.                                              *)
(***************************************************************************)
\* the form is two text fields of one name
SameNameTwice(f) == Len(f) = 2 /\ FieldsOnly(f) /\ f[1].name = f[2].name

LastOccurrenceWins ==
    (SameNameTwice(form) /\ pc = "done" /\ nextra = 0)
        => /\ DOMAIN result = {form[2].name}
           /\ result[form[2].name] = Decode(form[2].body).v

(***************************************************************************)
(* C16.  Withholding in IN_BODY: whatever the sizes of the chunks, no byte *)
(* of a marker between two parts or of the closing marker is written to a  *)
(* sink.  Stated for forms of text fields, whose bodies hold no byte that  *)
(* a marker holds, delivered in chunks whose edges fall in bodies and in   *)
(* these markers.                                                          *)
(***************************************************************************)
\* the bytes the markers of st are made of
MarkerBytes(st) ==
    {MidBoundary(st)[k] : k \in DOMAIN MidBoundary(st)}
    \cup {LastBoundary(st)[k] : k \in DOMAIN LastBoundary(st)}

NoMarkerByteWritten ==
    (/\ FieldsOnly(form)
     /\ s.boundary # None
     /\ edges \subseteq {"body", "mid", "closing"}
     /\ nextra = 0)
        => \A j \in DOMAIN s.sinks :
               \A k \in DOMAIN s.sinks[j].buffer :
                   s.sinks[j].buffer[k] \notin MarkerBytes(s)

(***************************************************************************)
(* C17.  Flush in values(): a values() call that finds prev_chunk          *)
(* non-empty scans the bytes of prev_chunk once: it creates exactly one    *)
(* sink for each part that begins in prev_chunk, and leaves prev_chunk     *)
(* empty.  Stated for forms of text fields delivered in chunks whose edges *)
(* fall in bodies.                                                         *)
(***************************************************************************)
\* the number of parts that begin in the bytes carry
PartsIn(st, carry) == Len(PyRest(PySplit(carry, OpeningBoundary(st))))

FlushScansCarryOnce ==
    [][(/\ pc = "feeding" /\ pc' = "done"
        /\ s.prev_chunk # <<>>
        /\ FieldsOnly(form) /\ edges \subseteq {"body"} /\ nextra = 0)
          => /\ Len(s'.sinks) = Len(s.sinks) + PartsIn(s, s.prev_chunk)
             /\ s'.prev_chunk = <<>>]_vars

(***************************************************************************)
(* C18.  Every sink is closed at completion: when a form of text fields    *)
(* has been delivered in one chunk and values() has returned, every sink   *)
(* in parts has been closed, the sink of a part that is followed by        *)
(* another part in the chunk included.                                     *)
(***************************************************************************)
SinksClosedAtCompletion ==
    (FieldsOnly(form) /\ OneChunk /\ pc = "done")
        => \A k \in DOMAIN s.parts : s.sinks[s.parts[k]].closed

(***************************************************************************)
(* C19.  No write after supersession: once the sink of a later part has    *)
(* been created, write() is not called on the sink of an earlier part, by  *)
(* any process() or values() call.                                         *)
(***************************************************************************)
NoWriteAfterSupersession == \A j \in DOMAIN s.sinks : ~s.sinks[j].stale

\* two parts of one name: the second was created in one process() call, a
\* later call wrote the rest of its body, and values() has returned
NoWriteAfterSupersessionWitness ==
    /\ SameNameTwice(form)
    /\ edges = {"body"}
    /\ nchunks = 2
    /\ pc = "done"
    /\ Len(s.sinks) = 2
    /\ form[1].body # <<>>
    /\ s.sinks[1].buffer = form[1].body
    /\ s.sinks[2].buffer = form[2].body
    /\ form[2].body # <<>>

(***************************************************************************)
(* C20.  Unexpected-error cleanup: when the construction of the sink of a  *)
(* part fails with an error that is not the validation error, close() is   *)
(* attempted on the sink of that part and not on the sink of an earlier    *)
(* part of the same name; as the failed part has no sink to close,         *)
(* process() raises.  Stated for a text field followed by an upload of the *)
(* same name, delivered in one chunk.                                      *)
(***************************************************************************)
\* the form is a text field and then an upload of the same name, whose sink
\* is a MyFile
FieldThenUpload(f) ==
    /\ Len(f) = 2
    /\ IsField(f[1])
    /\ IsUpload(f[2])
    /\ f[1].name = f[2].name

ErrorCleanupOnOffendingSink ==
    (/\ FieldThenUpload(form)
     /\ MyFileInit(form[2].name, form[2].filename, ExtensionOf(form[2])).exc # NoExc
     /\ OneChunk)
        => /\ raised.type = "MultiPartStreamerException"
           /\ \A j \in DOMAIN s.sinks : ~s.sinks[j].closed
====
